---- MODULE Spec2Model ----
(***************************************************************************)
(* Model of Stable_financials.py: the Streamlit "Intrinsic Value           *)
(* Calculator" (Gordon / ROE-based / Two-stage DDM, Residual Income,       *)
(* FCFF-DCF) and its valuation_history.csv log.                            *)
(*                                                                         *)
(* Numbers.  Python floats are modelled by exact rationals <<n, d>> in     *)
(* lowest terms with d > 0; a text input is the integer the user typed.    *)
(* Binary rounding error of the float operations is therefore not part of  *)
(* the model; everything else (operation order, guards, exceptions,        *)
(* rounding to 4 decimals for display and storage) follows the source.     *)
(***************************************************************************)
EXTENDS Integers, Sequences, FiniteSets, TLC

VARIABLES
    req,      \* the widget values of the page (model choice and text inputs)
    result,   \* outcome of the script run that followed the last interaction
    out,      \* the st.error / st.success / st.info / st.write calls of that run
    steps,    \* the assignments that run executed, in execution order
    file,     \* valuation_history.csv
    now,      \* datetime.now(), in minutes
    pc,       \* per session: position inside save_history
    history,  \* per session: the frame save_history is about to write
    row       \* per session: new_row

vars == <<req, result, out, steps, file, now, pc, history, row>>

----------------------------------------------------------------------------
(* Bounds of the model *)

MaxHist == 2
MaxClock == 1
MaxYears == 2
MaxHorizon == 10

----------------------------------------------------------------------------
(* Exact rational arithmetic standing in for float arithmetic *)

Abs(x) == IF x < 0 THEN -x ELSE x

RECURSIVE Gcd(_, _)
Gcd(a, b) == IF b = 0 THEN a ELSE Gcd(b, a % b)

Norm(n, d) ==
    LET g == Gcd(Abs(n), Abs(d))
        s == IF d < 0 THEN -1 ELSE 1
    IN  <<s * (n \div g), s * (d \div g)>>

R(n) == <<n, 1>>

Zero == R(0)
One == R(1)

RAdd(a, b) ==
    LET g == Gcd(a[2], b[2])
    IN  Norm(a[1] * (b[2] \div g) + b[1] * (a[2] \div g), (a[2] \div g) * b[2])

RNeg(a) == <<-a[1], a[2]>>

RSub(a, b) == RAdd(a, RNeg(b))

RMul(a, b) ==
    IF a[1] = 0 \/ b[1] = 0 THEN Zero
    ELSE LET g1 == Gcd(Abs(a[1]), b[2])
             g2 == Gcd(Abs(b[1]), a[2])
         IN  Norm((a[1] \div g1) * (b[1] \div g2), (a[2] \div g2) * (b[2] \div g1))

\* a / b; Python raises ZeroDivisionError when b is zero, the callers test that
RDiv(a, b) == RMul(a, Norm(b[2], b[1]))

RLt(a, b) == a[1] * b[2] < b[1] * a[2]
RLeq(a, b) == a[1] * b[2] <= b[1] * a[2]
RGeq(a, b) == RLeq(b, a)
IsZero(a) == a[1] = 0

\* x ** k for an int k; 0.0 ** k raises ZeroDivisionError when k < 0
RECURSIVE RPowNat(_, _)
RPowNat(x, k) == IF k = 0 THEN One ELSE RMul(x, RPowNat(x, k - 1))

PowRaises(x, k) == IsZero(x) /\ k < 0

RPow(x, k) == IF k >= 0 THEN RPowNat(x, k) ELSE RDiv(One, RPowNat(x, -k))

\* float(text) / 100.0
Pct(x) == Norm(x, 100)

\* the first four decimals of the fraction r/d (0 <= r < d) and what is left: <<k, rem>>
Frac2(r, d) == <<(r * 100) \div d, (r * 100) % d>>
Frac4b(hi, d) == <<hi[1] * 100 + (hi[2] * 100) \div d, (hi[2] * 100) % d>>
Frac4(r, d) == Frac4b(Frac2(r, d), d)

\* round half to even at the fourth decimal, as round(float(x), 4)
RoundHalfEven(k, rem, d) ==
    Norm(IF 2 * rem > d \/ (2 * rem = d /\ k % 2 = 1) THEN k + 1 ELSE k, 10000)

Round4(ip, f, d) == RoundHalfEven(ip * 10000 + f[1], f[2], d)

round2(x) == Round4(x[1] \div x[2], Frac4(x[1] % x[2], x[2]), x[2])

----------------------------------------------------------------------------
(* What one script run leaves behind *)

Msg(kind, text, vals) == [kind |-> kind, text |-> text, vals |-> vals]
Step(var, val) == [var |-> var, val |-> val]

ErrGordon == "g must be less than Ke for Gordon DDM."
ErrROE == "g must be less than Ke for ROE-DDM."
ErrStable == "Stable g must be less than Ke."
ErrCapital == "Equity + Debt cannot be zero."
ErrWacc == "WACC must be greater than terminal growth rate."
ErrShares == "Shares Outstanding must be greater than 0."
ZeroDivisionError == "ZeroDivisionError"

\* a run that ended in st.error(text)
Failed(text, o, s) ==
    [status |-> "error", err |-> text, iv |-> <<>>, label |-> "",
     out |-> Append(o, Msg("error", text, <<>>)), steps |-> s]

\* a run ended by an exception no except clause catches
Raised(o, s) ==
    [status |-> "raised", err |-> ZeroDivisionError, iv |-> <<>>, label |-> "",
     out |-> Append(o, Msg("exception", ZeroDivisionError, <<>>)), steps |-> s]

\* a run that reached save_history(ticker, value, label)
Valued(value, label, o, s) ==
    [status |-> "ok", err |-> "", iv |-> <<value>>, label |-> label,
     out |-> o, steps |-> s]

Round2All(xs) == [i \in DOMAIN xs |-> round2(xs[i])]

----------------------------------------------------------------------------
(* Cost of equity, lines 16-18 and 106-121 *)

cost_of_equity_capm(rf_pct, beta, erp_pct) == RAdd(rf_pct, RMul(beta, erp_pct))

KePctOf(ke) ==
    IF ke.mode = "Direct Input" THEN R(ke.KePct)
    ELSE cost_of_equity_capm(R(ke.Rf), R(ke.Beta), R(ke.ERP))

KeOf(ke) == RDiv(KePctOf(ke), R(100))

g_from_roe(roe_dec, payout_dec) == RMul(roe_dec, RSub(One, payout_dec))

----------------------------------------------------------------------------
(* Gordon Growth DDM, lines 124-133 *)

GordonValue(KePct, g_text, Ke, g, value_per_share) ==
    Valued(value_per_share, "Financials - Gordon DDM",
           <<Msg("success", "Intrinsic Value per Share", <<round2(value_per_share)>>),
             Msg("write", "Ke; g", <<round2(KePct), round2(g_text)>>)>>,
           <<Step("Ke", Ke), Step("g", g), Step("value_per_share", value_per_share)>>)

GordonGuard(KePct, g_text, Ke, D1, g) ==
    IF RGeq(g, Ke) THEN Failed(ErrGordon, <<>>, <<Step("Ke", Ke), Step("g", g)>>)
    ELSE GordonValue(KePct, g_text, Ke, g, RDiv(D1, RSub(Ke, g)))

GordonGrowth(inp) ==
    GordonGuard(KePctOf(inp.ke), R(inp.g), KeOf(inp.ke), R(inp.D1), Pct(inp.g))

(* ROE-based DDM, lines 135-147 *)

ROEValue(Ke, g, D1, value_per_share) ==
    Valued(value_per_share, "Financials - ROE-DDM",
           <<Msg("success", "Intrinsic Value per Share", <<round2(value_per_share)>>),
             Msg("write", "Derived g; D1", <<round2(g), round2(D1)>>)>>,
           <<Step("Ke", Ke), Step("g", g), Step("D1", D1),
             Step("value_per_share", value_per_share)>>)

ROEGuard(Ke, g, D1) ==
    IF RGeq(g, Ke)
    THEN Failed(ErrROE, <<>>, <<Step("Ke", Ke), Step("g", g), Step("D1", D1)>>)
    ELSE ROEValue(Ke, g, D1, RDiv(D1, RSub(Ke, g)))

ROEBased(inp) ==
    ROEGuard(KeOf(inp.ke), g_from_roe(Pct(inp.ROE), Pct(inp.payout)),
             RMul(R(inp.EPS), Pct(inp.payout)))

----------------------------------------------------------------------------
(* Two-stage DDM, lines 149-170 *)

\* lines 158-159 of one pass; den is (1 + Ke) ** t, and dividing by zero raises
TwoStageAdd(a, Dt, den) ==
    IF IsZero(den)
    THEN [a EXCEPT !.dividends = Append(@, Dt),
                   !.steps = Append(@, Step("Dt", Dt)),
                   !.raised = TRUE]
    ELSE [a EXCEPT !.dividends = Append(@, Dt),
                   !.pvDiv = RAdd(@, RDiv(Dt, den)),
                   !.steps = @ \o <<Step("Dt", Dt),
                                    Step("pvDiv", RAdd(a.pvDiv, RDiv(Dt, den)))>>]

\* one pass of the loop of lines 156-159
TwoStageBody(a, D0, g_high, Ke, t) ==
    TwoStageAdd(a, RMul(D0, RPow(RAdd(One, g_high), t)), RPow(RAdd(One, Ke), t))

RECURSIVE TwoStageLoop(_, _, _, _, _, _)
TwoStageLoop(a, D0, g_high, Ke, t, n) ==
    IF t > n \/ a.raised THEN a
    ELSE TwoStageLoop(TwoStageBody(a, D0, g_high, Ke, t), D0, g_high, Ke, t + 1, n)

\* lines 166-170
TwoStageValue(a, TV, pvTV, value_per_share, s) ==
    Valued(value_per_share, "Financials - Two-stage DDM",
           <<Msg("success", "Intrinsic Value per Share", <<round2(value_per_share)>>),
             Msg("write", "Forecasted Dividends", Round2All(a.dividends)),
             Msg("write", "PV(divs); TV; PV(TV)", <<round2(a.pvDiv), round2(TV), round2(pvTV)>>)>>,
           s \o <<Step("pvTV", pvTV), Step("value_per_share", value_per_share)>>)

TwoStageSum(a, TV, pvTV, s) == TwoStageValue(a, TV, pvTV, RAdd(a.pvDiv, pvTV), s)

\* line 165; (1 + Ke) ** n raises for a zero base and n < 0
TwoStageDiscount(a, Ke, n, TV, s) ==
    IF PowRaises(RAdd(One, Ke), n) THEN Raised(<<>>, Append(s, Step("TV", TV)))
    ELSE TwoStageSum(a, TV, RDiv(TV, RPow(RAdd(One, Ke), n)), Append(s, Step("TV", TV)))

\* lines 161-164
TwoStageGuard(a, Ke, n, g_stable, Dn1) ==
    IF RGeq(g_stable, Ke) THEN Failed(ErrStable, <<>>, Append(a.steps, Step("Dn1", Dn1)))
    ELSE TwoStageDiscount(a, Ke, n, RDiv(Dn1, RSub(Ke, g_stable)),
                          Append(a.steps, Step("Dn1", Dn1)))

\* TwoStageTerminal with the terminal dividend left at D_n (no stable-growth step)
TwoStageTerminal_NoGrowthStep(a, D0, g_high, Ke, n, g_stable) ==
    IF a.raised \/ PowRaises(RAdd(One, g_high), n) THEN Raised(<<>>, a.steps)
    ELSE TwoStageGuard(a, Ke, n, g_stable, RMul(D0, RPow(RAdd(One, g_high), n)))

\* line 160, reached unless the loop raised
TwoStageTerminal(a, D0, g_high, Ke, n, g_stable) ==
    IF a.raised \/ PowRaises(RAdd(One, g_high), n) THEN Raised(<<>>, a.steps)
    ELSE TwoStageGuard(a, Ke, n, g_stable,
                       RMul(RMul(D0, RPow(RAdd(One, g_high), n)), RAdd(One, g_stable)))

\* lines 154-159
TwoStageRun(D0, g_high, Ke, n, g_stable) ==
    TwoStageTerminal(
        TwoStageLoop([pvDiv |-> Zero, dividends |-> <<>>, raised |-> FALSE,
                      steps |-> <<Step("Ke", Ke), Step("pvDiv", Zero)>>],
                     D0, g_high, Ke, 1, n),
        D0, g_high, Ke, n, g_stable)

TwoStage(inp) ==
    TwoStageRun(R(inp.D0), Pct(inp.g_high), KeOf(inp.ke), inp.n, Pct(inp.g_stable))

----------------------------------------------------------------------------
(* Residual Income, lines 172-191 *)

\* lines 184-187 of one pass; den is (1 + Ke) ** t, and dividing by zero raises
ResidualAdd(a, earnings, dividends, residual, den) ==
    IF IsZero(den)
    THEN [a EXCEPT !.steps = @ \o <<Step("earnings", earnings), Step("dividends", dividends),
                                    Step("residual", residual)>>,
                   !.raised = TRUE]
    ELSE [a EXCEPT !.residuals = Append(@, RDiv(residual, den)),
                   !.pvRI = RAdd(@, RDiv(residual, den)),
                   !.BVt = RAdd(@, RSub(earnings, dividends)),
                   !.steps = @ \o <<Step("earnings", earnings), Step("dividends", dividends),
                                    Step("residual", residual),
                                    Step("pv", RDiv(residual, den)),
                                    Step("pvRI", RAdd(a.pvRI, RDiv(residual, den))),
                                    Step("BVt", RAdd(a.BVt, RSub(earnings, dividends)))>>]

\* ResidualOf with the dividend taken as the retained share of earnings
ResidualOf_RetainedAsPaid(a, payout, Ke, t, earnings) ==
    ResidualAdd(a, earnings, RMul(earnings, RSub(One, payout)),
                RSub(earnings, RMul(Ke, a.BVt)), RPow(RAdd(One, Ke), t))

\* lines 182-183
ResidualOf(a, payout, Ke, t, earnings) ==
    ResidualAdd(a, earnings, RMul(earnings, payout), RSub(earnings, RMul(Ke, a.BVt)),
                RPow(RAdd(One, Ke), t))

\* one pass of the loop of lines 180-187
ResidualBody(a, ROE, payout, Ke, t) == ResidualOf(a, payout, Ke, t, RMul(ROE, a.BVt))

RECURSIVE ResidualLoop(_, _, _, _, _, _)
ResidualLoop(a, ROE, payout, Ke, t, horizon) ==
    IF t > horizon \/ a.raised THEN a
    ELSE ResidualLoop(ResidualBody(a, ROE, payout, Ke, t), ROE, payout, Ke, t + 1, horizon)

\* lines 189-191
ResidualValue(a, value_per_share) ==
    Valued(value_per_share, "Financials - Residual Income",
           <<Msg("success", "Intrinsic Value per Share", <<round2(value_per_share)>>),
             Msg("write", "PV(Residual Incomes)", Round2All(a.residuals))>>,
           Append(a.steps, Step("value_per_share", value_per_share)))

\* line 188, reached unless the loop raised
ResidualSum(a, BV0) ==
    IF a.raised THEN Raised(<<>>, a.steps) ELSE ResidualValue(a, RAdd(BV0, a.pvRI))

\* lines 177-187
ResidualRun(BV0, ROE, payout, horizon, Ke) ==
    ResidualSum(
        ResidualLoop([BVt |-> BV0, pvRI |-> Zero, residuals |-> <<>>, raised |-> FALSE,
                      steps |-> <<Step("Ke", Ke), Step("BVt", BV0), Step("pvRI", Zero)>>],
                     ROE, payout, Ke, 1, horizon),
        BV0)

ResidualIncome(inp) ==
    ResidualRun(R(inp.BV0), Pct(inp.ROE), Pct(inp.payout), inp.horizon, KeOf(inp.ke))

----------------------------------------------------------------------------
(* FCFF-DCF, lines 232-324 *)

\* lines 320-324
FCFFValue(a, FCFF_Nplus1, TV, PV_TV, EV, NetDebt, EquityValue, IVps, o, s) ==
    Valued(IVps, "Non-Financials - FCFF",
           o \o <<Msg("success", "Intrinsic Value per Share", <<round2(IVps)>>),
                  Msg("info", "Margin of Safety",
                      <<round2(RMul(IVps, Norm(8, 10))), round2(RMul(IVps, Norm(12, 10)))>>),
                  Msg("write", "FCFF forecasts", Round2All(a.forecasts)),
                  Msg("write", "PV(FCFF); FCFF(N+1); TV; PV(TV); EV; Net Debt; Equity Value",
                      <<round2(a.pvFCFF), round2(FCFF_Nplus1), round2(TV), round2(PV_TV),
                        round2(EV), round2(NetDebt), round2(EquityValue)>>)>>,
           Append(s, Step("IVps", IVps)))

\* lines 317-320
PerShare(a, FCFF_Nplus1, TV, PV_TV, EV, NetDebt, EquityValue, Shares, o, s) ==
    IF RLeq(Shares, Zero)
    THEN Failed(ErrShares, o, s \o <<Step("EV", EV), Step("NetDebt", NetDebt),
                                     Step("EquityValue", EquityValue)>>)
    ELSE FCFFValue(a, FCFF_Nplus1, TV, PV_TV, EV, NetDebt, EquityValue,
                   RDiv(EquityValue, Shares), o,
                   s \o <<Step("EV", EV), Step("NetDebt", NetDebt),
                          Step("EquityValue", EquityValue)>>)

\* lines 312-315
Bridge(a, FCFF_Nplus1, TV, PV_TV, EV, NetDebt, Shares, o, s) ==
    PerShare(a, FCFF_Nplus1, TV, PV_TV, EV, NetDebt, RSub(EV, NetDebt), Shares, o, s)

\* line 311; (1 + WACC) ** years raises for a zero base and years < 0
TerminalPV(a, WACC, years, FCFF_Nplus1, TV, NetDebt, Shares, o, s) ==
    IF PowRaises(RAdd(One, WACC), years) THEN Raised(o, s)
    ELSE Bridge(a, FCFF_Nplus1, TV, RDiv(TV, RPow(RAdd(One, WACC), years)),
                RAdd(a.pvFCFF, RDiv(TV, RPow(RAdd(One, WACC), years))), NetDebt, Shares, o,
                Append(s, Step("PV_TV", RDiv(TV, RPow(RAdd(One, WACC), years)))))

\* line 310
TerminalValue(a, WACC, gT, years, FCFF_Nplus1, NetDebt, Shares, o) ==
    TerminalPV(a, WACC, years, FCFF_Nplus1, RDiv(FCFF_Nplus1, RSub(WACC, gT)), NetDebt, Shares, o,
               a.steps \o <<Step("FCFF_Nplus1", FCFF_Nplus1),
                            Step("TV", RDiv(FCFF_Nplus1, RSub(WACC, gT)))>>)

\* line 309, reached unless the loop raised
Terminal(a, WACC, gT, years, NetDebt, Shares, o) ==
    IF a.raised THEN Raised(o, a.steps)
    ELSE TerminalValue(a, WACC, gT, years, RMul(a.fcff_t, RAdd(One, gT)), NetDebt, Shares, o)

\* lines 306-307 of one pass; den is (1 + WACC) ** t, and dividing by zero raises
ForecastAdd(a, fcff_t, den) ==
    IF IsZero(den)
    THEN [a EXCEPT !.fcff_t = fcff_t,
                   !.forecasts = Append(@, fcff_t),
                   !.steps = @ \o <<Step("fcff_t", fcff_t), Step("forecasts", fcff_t)>>,
                   !.raised = TRUE]
    ELSE [a EXCEPT !.fcff_t = fcff_t,
                   !.forecasts = Append(@, fcff_t),
                   !.pvFCFF = RAdd(@, RDiv(fcff_t, den)),
                   !.steps = @ \o <<Step("fcff_t", fcff_t), Step("forecasts", fcff_t),
                                    Step("pvFCFF", RAdd(a.pvFCFF, RDiv(fcff_t, den)))>>]

\* one pass of the loop of lines 304-307
ForecastBody(a, g, WACC, t) ==
    ForecastAdd(a, RMul(a.fcff_t, RAdd(One, g)), RPow(RAdd(One, WACC), t))

RECURSIVE ForecastLoop(_, _, _, _, _)
ForecastLoop(a, g, WACC, t, years) ==
    IF t > years \/ a.raised THEN a
    ELSE ForecastLoop(ForecastBody(a, g, WACC, t), g, WACC, t + 1, years)

\* lines 297-307, entered with WACC and Shares parsed
Forecast(FCFF0, g, gT, years, WACC, NetDebt, Shares, o, s) ==
    IF RLeq(WACC, gT) THEN Failed(ErrWacc, o, s)
    ELSE Terminal(ForecastLoop([pvFCFF |-> Zero, fcff_t |-> FCFF0, forecasts |-> <<>>,
                                raised |-> FALSE,
                                steps |-> s \o <<Step("pvFCFF", Zero), Step("fcff_t", FCFF0)>>],
                               g, WACC, 1, years),
                  WACC, gT, years, NetDebt, Shares, o)

\* lines 277-278
WaccWeighted(W_e, W_d, WACC, o, s) ==
    [WACC |-> <<WACC>>,
     out |-> Append(o, Msg("success", "WACC; We; Wd",
                           <<round2(RMul(WACC, R(100))), round2(RMul(W_e, R(100))),
                             round2(RMul(W_d, R(100)))>>)),
     steps |-> s \o <<Step("W_e", W_e), Step("W_d", W_d), Step("WACC", WACC)>>]

\* lines 275-277
WaccWeights(W_e, W_d, Ke_dec, Kd_after, o, s) ==
    WaccWeighted(W_e, W_d, RAdd(RMul(W_e, Ke_dec), RMul(W_d, Kd_after)), o, s)

\* WaccComputedOf with a silent fallback to Ke when E + D == 0
WaccComputedOf_FallbackKe(E, D, Ke_dec, Kd_after, o, s) ==
    IF IsZero(RAdd(E, D))
    THEN [WACC |-> <<Ke_dec>>, out |-> o, steps |-> Append(s, Step("WACC", Ke_dec))]
    ELSE WaccWeights(RDiv(E, RAdd(E, D)), RDiv(D, RAdd(E, D)), Ke_dec, Kd_after, o, s)

\* lines 271-276
WaccComputedOf(E, D, Ke_dec, Kd_after, o, s) ==
    IF IsZero(RAdd(E, D))
    THEN [WACC |-> <<>>, out |-> Append(o, Msg("error", ErrCapital, <<>>)), steps |-> s]
    ELSE WaccWeights(RDiv(E, RAdd(E, D)), RDiv(D, RAdd(E, D)), Ke_dec, Kd_after, o, s)

\* lines 257-281: <<WACC>>, or <<>> for None, with the messages and assignments
WaccOf(inp, taxRate, o, s) ==
    IF inp.use_direct_wacc
    THEN [WACC |-> <<Pct(inp.WACC)>>, out |-> o,
          steps |-> Append(s, Step("WACC", Pct(inp.WACC)))]
    ELSE WaccComputedOf(R(inp.E), R(inp.D), RDiv(R(inp.Ke), R(100)),
                        RMul(RDiv(R(inp.Kd), R(100)), RSub(One, taxRate)), o,
                        s \o <<Step("Ke_dec", RDiv(R(inp.Ke), R(100))),
                               Step("Kd_after",
                                    RMul(RDiv(R(inp.Kd), R(100)), RSub(One, taxRate)))>>)

\* lines 283-297
AfterWacc(inp, FCFF0, g, w) ==
    IF w.WACC = <<>>
    THEN [status |-> "error", err |-> ErrCapital, iv |-> <<>>, label |-> "",
          out |-> w.out, steps |-> w.steps]
    ELSE Forecast(FCFF0, g, Pct(inp.gT), inp.years, w.WACC[1],
                  RSub(R(inp.Borrowings), R(inp.Cash)), R(inp.Shares), w.out, w.steps)

\* lines 253-256
BaseFCFF(inp, g, NOPAT, FCFF0) ==
    AfterWacc(inp, FCFF0, g,
              WaccOf(inp, Pct(inp.taxRate),
                     <<Msg("info", "Base FCFF", <<round2(FCFF0)>>)>>,
                     <<Step("g", g), Step("NOPAT", NOPAT), Step("FCFF0", FCFF0)>>))

\* lines 252-253
Nopat(inp, g, NOPAT) ==
    BaseFCFF(inp, g, NOPAT, RSub(RSub(RAdd(NOPAT, R(inp.DA)), R(inp.Capex)), R(inp.DeltaWC)))

\* lines 235-252
FCFF(inp) ==
    Nopat(inp, RMul(Pct(inp.ROCE), Pct(inp.reinv)),
          RMul(R(inp.EBIT), RSub(One, Pct(inp.taxRate))))

----------------------------------------------------------------------------
(* valuation_history.csv, lines 30-48 *)

NoFile == [exists |-> FALSE, rows |-> <<>>]

\* the missing-value marker of a data frame
NaN == "float('nan')"

\* texts pd.read_csv takes for a missing value (its default na_values)
NaTokens == {"", "NA", "N/A", "NULL", "NaN", "nan", "null", "None", "n/a", "<NA>", "#N/A"}

\* pd.read_csv(history_file): the rows of the file as a frame
read_csv(rows) ==
    [i \in DOMAIN rows |->
        IF rows[i].Company \in NaTokens THEN [rows[i] EXCEPT !.Company = NaN] ELSE rows[i]]

\* history.to_csv(history_file, index=False): a missing value is written as the empty text
to_csv(frame) ==
    [exists |-> TRUE,
     rows |-> [i \in DOMAIN frame |->
                 IF frame[i].Company = NaN THEN [frame[i] EXCEPT !.Company = ""] ELSE frame[i]]]

\* lines 33-38; inputs_snapshot is None at every call
new_row(company, ivps, model_type, date) ==
    [Company |-> company, IV |-> round2(ivps), Model |-> model_type, Date |-> date]

\* lines 43-47
concat(f, frame, r) == IF f THEN Append(frame, r) ELSE <<r>>

save_history(f, company, ivps, model_type, date) ==
    to_csv(concat(f.exists, read_csv(f.rows), new_row(company, ivps, model_type, date)))

\* ticker if ticker else "Unknown"
CompanyOf(ticker) == IF ticker # "" THEN ticker ELSE "Unknown"

----------------------------------------------------------------------------
(* The page: widgets, the Calculate button, one script run per interaction *)

Idle == [status |-> "idle", err |-> "", iv |-> <<>>]

Run(r) ==
    CASE r.model = "Gordon Growth DDM" -> GordonGrowth(r.inp)
      [] r.model = "ROE-based DDM" -> ROEBased(r.inp)
      [] r.model = "Two-stage DDM" -> TwoStage(r.inp)
      [] r.model = "Residual Income" -> ResidualIncome(r.inp)
      [] r.model = "Non-Financials (FCFF-DCF)" -> FCFF(r.inp)

\* the user presses "Calculate Intrinsic Value": lines 104-194 or 232-324
Calculate ==
    /\ Len(file.rows) < MaxHist
    /\ LET res == Run(req)
       IN  /\ result' = [status |-> res.status, err |-> res.err, iv |-> res.iv]
           /\ out' = res.out
           /\ steps' = res.steps
           /\ file' = IF res.status = "ok"
                      THEN save_history(file, CompanyOf(req.ticker), res.iv[1], res.label, now)
                      ELSE file
    /\ UNCHANGED <<req, now, pc, history, row>>

\* the user edits a widget: the script reruns with calculate = False
SetInputs(r) ==
    /\ r # req
    /\ req' = r
    /\ result' = Idle
    /\ out' = <<>>
    /\ steps' = <<>>
    /\ UNCHANGED <<file, now, pc, history, row>>

\* a minute passes
Tick ==
    /\ now < MaxClock
    /\ now' = now + 1
    /\ UNCHANGED <<req, result, out, steps, file, pc, history, row>>

----------------------------------------------------------------------------
(* Widget values the checks range over *)

KeDirect(x) == [mode |-> "Direct Input", KePct |-> x, Rf |-> 0, Beta |-> 0, ERP |-> 0]
KeCapm(rf, beta, erp) ==
    [mode |-> "CAPM (Rf, Beta, ERP)", KePct |-> 0, Rf |-> rf, Beta |-> beta, ERP |-> erp]

RatePcts == {-200, -100, 0, 50, 100}
KeChoices == {KeDirect(x) : x \in RatePcts} \cup {KeCapm(0, 1, 50), KeCapm(50, 1, 50)}

GordonInputs(tickers, D1s, gs, kes) ==
    {[model |-> "Gordon Growth DDM", ticker |-> tk, inp |-> [ke |-> ke, D1 |-> D1, g |-> g]] :
        tk \in tickers, D1 \in D1s, g \in gs, ke \in kes}

ROEInputs(tickers, EPSs, ROEs, payouts, kes) ==
    {[model |-> "ROE-based DDM", ticker |-> tk,
      inp |-> [ke |-> ke, EPS |-> e, ROE |-> roe, payout |-> p]] :
        tk \in tickers, e \in EPSs, roe \in ROEs, p \in payouts, ke \in kes}

TwoStageInputs(tickers, D0s, ghs, ns, gss, kes) ==
    {[model |-> "Two-stage DDM", ticker |-> tk,
      inp |-> [ke |-> ke, D0 |-> D0, g_high |-> gh, n |-> n, g_stable |-> gs]] :
        tk \in tickers, D0 \in D0s, gh \in ghs, n \in ns, gs \in gss, ke \in kes}

RIInputs(tickers, BV0s, ROEs, payouts, horizons, kes) ==
    {[model |-> "Residual Income", ticker |-> tk,
      inp |-> [ke |-> ke, BV0 |-> b, ROE |-> roe, payout |-> p, horizon |-> h]] :
        tk \in tickers, b \in BV0s, roe \in ROEs, p \in payouts, h \in horizons, ke \in kes}

\* the WACC widgets: either the direct text or Ke, Kd, E, D
WaccDirect(x) == [use_direct_wacc |-> TRUE, WACC |-> x, Ke |-> 0, Kd |-> 0, E |-> 0, D |-> 0]
WaccComputed(ke, kd, e, d) ==
    [use_direct_wacc |-> FALSE, WACC |-> 0, Ke |-> ke, Kd |-> kd, E |-> e, D |-> d]

FCFFInputs(tickers, taxes, yearss, reinvs, gTs, waccs, borrowings, shares) ==
    {[model |-> "Non-Financials (FCFF-DCF)", ticker |-> tk,
      inp |-> [EBIT |-> 1000, taxRate |-> tax, DA |-> 100, Capex |-> 200, DeltaWC |-> 50,
               years |-> y, ROCE |-> 50, reinv |-> rv, gT |-> gT,
               use_direct_wacc |-> w.use_direct_wacc, WACC |-> w.WACC,
               Ke |-> w.Ke, Kd |-> w.Kd, E |-> w.E, D |-> w.D,
               Borrowings |-> b, Cash |-> 0, Shares |-> sh]] :
        tk \in tickers, tax \in taxes, y \in yearss, rv \in reinvs, gT \in gTs,
        w \in waccs, b \in borrowings, sh \in shares}

WaccChoices ==
    {WaccDirect(x) : x \in {-100, 0, 50, 100}}
    \cup {WaccComputed(ke, kd, e, d) :
             ke \in {0, 100}, kd \in {0, 100}, e \in {-500, 0, 1000}, d \in {0, 500}}

\* every model over its ranges, for the checks of the valuation functions
ModelInputs ==
    GordonInputs({""}, {-10, 0, 10}, RatePcts, KeChoices)
    \cup ROEInputs({""}, {50}, RatePcts, {0, 50, 100}, KeChoices)
    \cup TwoStageInputs({""}, {-8, 0, 8}, RatePcts, -1 .. MaxYears, RatePcts, KeChoices)
    \cup RIInputs({""}, {100}, RatePcts, {100}, -1 .. MaxHorizon, KeChoices)
    \cup RIInputs({""}, {100}, RatePcts, {0, 50}, -1 .. MaxYears, KeChoices)
    \cup FCFFInputs({""}, {0, 50}, -1 .. MaxYears, {0, 100}, {-200, 0, 50}, WaccChoices,
                    {0, 100}, {-100, 0, 100})

Tickers == {"", "NA", "TCS"}

\* the page's defaults (lines 64, 81-82) and a few edits of them, for the history checks
Defaults == [model |-> "Gordon Growth DDM", ticker |-> "",
             inp |-> [ke |-> KeDirect(12), D1 |-> 10, g |-> 5]]

PageInputs ==
    GordonInputs(Tickers, {10}, {5, 12}, {KeDirect(12)})
    \cup ROEInputs(Tickers, {50}, {15}, {20}, {KeDirect(12)})
    \cup TwoStageInputs(Tickers, {8}, {100}, {1}, {0}, {KeDirect(50), KeCapm(0, 1, 0)})
    \cup RIInputs(Tickers, {100}, {50}, {100}, {1}, {KeDirect(100)})
    \cup FCFFInputs(Tickers, {50}, {1}, {0}, {0}, {WaccDirect(50), WaccDirect(0)}, {0}, {100})

PriorRow == [Company |-> "TCS", IV |-> Norm(1428571, 10000),
             Model |-> "Financials - Gordon DDM", Date |-> 0]

----------------------------------------------------------------------------
(* Spec: the page used by one session, one interaction after another *)

Sessions == {1, 2}

Init ==
    /\ req = Defaults
    /\ result = Idle
    /\ out = <<>>
    /\ steps = <<>>
    /\ file = NoFile
    /\ now = 0
    /\ pc = [s \in Sessions |-> "idle"]
    /\ history = [s \in Sessions |-> <<>>]
    /\ row = [s \in Sessions |-> <<>>]

Next ==
    \/ \E r \in PageInputs : SetInputs(r)
    \/ Calculate
    \/ Tick

Spec == Init /\ [][Next]_vars

(* SpecModels: every input of every model, calculated once *)

InitModels ==
    /\ req \in ModelInputs
    /\ result = Idle
    /\ out = <<>>
    /\ steps = <<>>
    /\ file \in {NoFile, to_csv(<<PriorRow>>)}
    /\ now = 0
    /\ pc = [s \in Sessions |-> "idle"]
    /\ history = [s \in Sessions |-> <<>>]
    /\ row = [s \in Sessions |-> <<>>]

NextModels == result = Idle /\ Calculate

SpecModels == InitModels /\ [][NextModels]_vars

----------------------------------------------------------------------------
(* SpecSessions: two sessions of the hosted page, each script run in its   *)
(* own thread, interleaved at the file operations of save_history          *)

SessionInputs == {r \in PageInputs : r.ticker # "NA"}

\* a session's run computes a value and enters save_history: lines 33-38
SessCalculate(s, r) ==
    /\ pc[s] \in {"idle", "done"}
    /\ Len(file.rows) + Cardinality({u \in Sessions : pc[u] \notin {"idle", "done"}}) < MaxHist
    /\ Run(r).status = "ok"
    /\ row' = [row EXCEPT ![s] = new_row(CompanyOf(r.ticker), Run(r).iv[1], Run(r).label, now)]
    /\ pc' = [pc EXCEPT ![s] = "exists"]
    /\ UNCHANGED <<req, result, out, steps, file, now, history>>

\* line 43 with the else branch, line 47
SessExists(s) ==
    /\ pc[s] = "exists"
    /\ IF file.exists
       THEN pc' = [pc EXCEPT ![s] = "read"] /\ UNCHANGED history
       ELSE /\ history' = [history EXCEPT ![s] = concat(FALSE, <<>>, row[s])]
            /\ pc' = [pc EXCEPT ![s] = "write"]
    /\ UNCHANGED <<req, result, out, steps, file, now, row>>

\* lines 44-45
SessRead(s) ==
    /\ pc[s] = "read"
    /\ history' = [history EXCEPT ![s] = concat(TRUE, read_csv(file.rows), row[s])]
    /\ pc' = [pc EXCEPT ![s] = "write"]
    /\ UNCHANGED <<req, result, out, steps, file, now, row>>

\* line 48
SessWrite(s) ==
    /\ pc[s] = "write"
    /\ file' = to_csv(history[s])
    /\ pc' = [pc EXCEPT ![s] = "done"]
    /\ UNCHANGED <<req, result, out, steps, now, history, row>>

NextSessions ==
    \E s \in Sessions :
        \/ \E r \in SessionInputs : SessCalculate(s, r)
        \/ SessExists(s)
        \/ SessRead(s)
        \/ SessWrite(s)

SpecSessions == Init /\ [][NextSessions]_vars

----------------------------------------------------------------------------
(* Vocabulary of the properties *)

Ran == result.status # "idle"
Inp == req.inp
IsGordon == req.model = "Gordon Growth DDM"
IsROE == req.model = "ROE-based DDM"
IsTwoStage == req.model = "Two-stage DDM"
IsRI == req.model = "Residual Income"
IsFCFF == req.model = "Non-Financials (FCFF-DCF)"

\* the values the run assigned to variable v, and how often it assigned it
StepVals(v) == {steps[i].val : i \in {j \in DOMAIN steps : steps[j].var = v}}
StepCount(v) == Cardinality({j \in DOMAIN steps : steps[j].var = v})
Assigned(v) == StepVals(v) # {}

\* the run showed an intrinsic value per share
ShownIV == \E i \in DOMAIN out : out[i].text = "Intrinsic Value per Share"
NoValue == result.iv = <<>> /\ ~ShownIV

\* SpecModels: the log is the one the run started with
Untouched == file \in {NoFile, to_csv(<<PriorRow>>)}

\* the cost of equity of a financial-model request
ReqKe == KeOf(Inp.ke)

----------------------------------------------------------------------------
(* C1: no intrinsic value comes from a non-positive perpetuity denominator *)

\* the run ended in the growth error e, showed no value and appended nothing
GrowthError(e) == result.status = "error" /\ result.err = e /\ NoValue /\ Untouched

\* C1: Gordon and ROE-based DDM with g >= Ke, Two-stage DDM with g_stable >= Ke and
\* FCFF with WACC <= terminal growth end in the growth-assumption error, show no
\* intrinsic value and append nothing; with g < Ke the Gordon value is D1/(Ke-g).
\* (Two-stage is taken with the period count n >= 1 that the model requires.)
C1_Claim ==
    Ran =>
        /\ IsGordon /\ RGeq(Pct(Inp.g), ReqKe) => GrowthError(ErrGordon)
        /\ IsGordon /\ RLt(Pct(Inp.g), ReqKe) =>
               result.iv = <<RDiv(R(Inp.D1), RSub(ReqKe, Pct(Inp.g)))>>
        /\ IsROE /\ RGeq(RMul(Pct(Inp.ROE), RSub(One, Pct(Inp.payout))), ReqKe) =>
               GrowthError(ErrROE)
        /\ IsTwoStage /\ Inp.n >= 1 /\ RGeq(Pct(Inp.g_stable), ReqKe) => GrowthError(ErrStable)
        /\ IsFCFF /\ (\E w \in StepVals("WACC") : RLeq(w, Pct(Inp.gT))) => GrowthError(ErrWacc)

\* the part of C1 that does not name the error: no value and no record
C1_NoValueFromBadDenominator ==
    Ran =>
        /\ IsGordon /\ RGeq(Pct(Inp.g), ReqKe) => NoValue /\ Untouched
        /\ IsROE /\ RGeq(RMul(Pct(Inp.ROE), RSub(One, Pct(Inp.payout))), ReqKe) =>
               NoValue /\ Untouched
        /\ IsTwoStage /\ RGeq(Pct(Inp.g_stable), ReqKe) => NoValue /\ Untouched
        /\ IsFCFF /\ (\E w \in StepVals("WACC") : RLeq(w, Pct(Inp.gT))) => NoValue /\ Untouched

----------------------------------------------------------------------------
(* C2: the margin-of-safety band *)

\* the run showed the band of value v, to the four decimals of the display
ShownBand(v) ==
    \E i \in DOMAIN out :
        /\ out[i].text = "Margin of Safety"
        /\ out[i].vals = <<round2(RMul(v, Norm(8, 10))), round2(RMul(v, Norm(12, 10)))>>

\* C2: every successful calculation of every model produces a margin-of-safety band
\* with low end 0.8*IV and high end 1.2*IV.
C2_Claim == result.status = "ok" => ShownBand(result.iv[1])

----------------------------------------------------------------------------
(* C5: a failed attempt leaves no partial result *)

ValuationVars ==
    {"NOPAT", "FCFF0", "W_e", "W_d", "fcff_t", "forecasts", "pvFCFF", "FCFF_Nplus1", "TV",
     "PV_TV", "EV", "NetDebt", "EquityValue", "IVps",
     "Dt", "pvDiv", "Dn1", "pvTV", "value_per_share"}

\* C5: an FCFF or Two-stage calculation that fails on a growth-assumption,
\* capital-structure or share-count check has done none of the valuation computation
\* and has emitted nothing but the failure.  (Period counts are taken >= 1.)
C5_Claim ==
    ((IsFCFF /\ Inp.years >= 1) \/ (IsTwoStage /\ Inp.n >= 1)) /\ result.status = "error"
    /\ result.err \in {ErrStable, ErrWacc, ErrCapital, ErrShares} =>
        /\ \A i \in DOMAIN steps : steps[i].var \notin ValuationVars
        /\ out = <<Msg("error", result.err, <<>>)>>

----------------------------------------------------------------------------
(* C6: period counts below 1 *)

\* C6: a Two-stage calculation with n < 1, a Residual Income calculation with
\* horizon < 1 and an FCFF calculation with forecast_years < 1 are rejected: no
\* intrinsic value per share and no history record.
C6_Claim ==
    Ran /\ \/ IsTwoStage /\ Inp.n < 1
           \/ IsRI /\ Inp.horizon < 1
           \/ IsFCFF /\ Inp.years < 1
    => result.status # "ok" /\ NoValue /\ Untouched

----------------------------------------------------------------------------
(* C7: the share-count check and the forecast loop *)

\* C7: an FCFF run with Shares <= 0 never reaches the forecast loop, the terminal
\* value or the enterprise-to-equity bridge, and ends in the share-count error unless
\* an earlier check (capital structure, growth) has already failed it.  (Forecast
\* years are taken >= 1.)
C7_Claim ==
    Ran /\ IsFCFF /\ Inp.years >= 1 /\ Inp.Shares <= 0 =>
        /\ \A i \in DOMAIN steps :
            steps[i].var \notin {"forecasts", "FCFF_Nplus1", "TV", "PV_TV", "EV", "NetDebt",
                                 "EquityValue"}
        /\ result.status = "error"
        /\ result.err \in {ErrShares, ErrCapital, ErrWacc}

----------------------------------------------------------------------------
(* C3: the history log under one session *)

IsPrefix(a, b) == Len(a) <= Len(b) /\ \A i \in DOMAIN a : b[i] = a[i]

\* a step that is a press of Calculate
CalculateStep == req' = req /\ now' = now /\ result'.status # "idle"

\* C3: a successful calculation appends exactly one record, its own, after the records
\* already in the log, which stay present, unmodified and in place; any other step
\* leaves the log unchanged.
C3_Claim ==
    [][IF CalculateStep /\ result'.status = "ok"
       THEN /\ Len(file'.rows) = Len(file.rows) + 1
            /\ IsPrefix(file.rows, file'.rows)
            /\ file'.rows[Len(file'.rows)].Company = CompanyOf(req.ticker)
            /\ file'.rows[Len(file'.rows)].IV = round2(result'.iv[1])
       ELSE file' = file]_vars

----------------------------------------------------------------------------
(* C10: the history log under two interleaved sessions *)

\* C10: when two sessions have both completed a successful calculation, both records
\* are in the log, each once.
C10_Claim ==
    pc[1] = "done" /\ pc[2] = "done" =>
        \E i, j \in DOMAIN file.rows :
            i # j /\ file.rows[i] = row[1] /\ file.rows[j] = row[2]

----------------------------------------------------------------------------
(* C4: WACC from the capital structure *)

\* the request's after-tax cost of debt, Kd * (1 - tax_rate)
ReqKdAfter == RMul(Pct(Inp.Kd), RSub(One, Pct(Inp.taxRate)))

\* C4: with WACC computed from Ke, Kd, E and D: when E + D is zero the FCFF run ends
\* in the capital-structure error, no WACC is substituted, no intrinsic value is
\* shown and nothing is appended; otherwise the weights sum to 1 and
\* WACC = W_e*Ke + W_d*Kd*(1 - tax_rate).
C4_CapitalStructure ==
    Ran /\ IsFCFF /\ ~Inp.use_direct_wacc =>
        IF Inp.E + Inp.D = 0
        THEN /\ result.status = "error"
             /\ result.err = ErrCapital
             /\ ~Assigned("WACC")
             /\ \A i \in DOMAIN out : out[i].text # "WACC; We; Wd"
             /\ NoValue
             /\ Untouched
        ELSE /\ StepCount("W_e") = 1 /\ StepCount("W_d") = 1 /\ StepCount("WACC") = 1
             /\ \A we \in StepVals("W_e"), wd \in StepVals("W_d"), w \in StepVals("WACC") :
                    /\ RAdd(we, wd) = One
                    /\ w = RAdd(RMul(we, Pct(Inp.Ke)), RMul(wd, ReqKdAfter))

C4_Witness ==
    /\ Ran /\ IsFCFF /\ ~Inp.use_direct_wacc
    /\ Inp.E + Inp.D = 0 /\ Inp.E # 0
    /\ result.err = ErrCapital

----------------------------------------------------------------------------
(* C8: Two-stage DDM with one growth rate *)

\* D0*(1+g)/(Ke-g), the Gordon value with D1 = D0*(1+g)
GordonOf(D0, g, Ke) == RDiv(RMul(D0, RAdd(One, g)), RSub(Ke, g))

SingleRate == IsTwoStage /\ Inp.n >= 1 /\ Inp.g_high = Inp.g_stable /\ RLt(Pct(Inp.g_stable), ReqKe)

\* C8 as stated: for every D0, n >= 1 and g < Ke, the Two-stage run with
\* g_high = g_stable = g returns D0*(1+g)/(Ke-g), whatever n is.
C8_Original ==
    Ran /\ SingleRate =>
        result.status = "ok" /\ result.iv = <<GordonOf(R(Inp.D0), Pct(Inp.g_stable), ReqKe)>>

\* C8 amended: the same for every Ke other than -100%; at Ke = -100% the run
\* divides by (1+Ke)^t = 0 and raises instead of returning a value.
C8_TwoStageReducesToGordon ==
    Ran /\ SingleRate =>
        IF IsZero(RAdd(One, ReqKe))
        THEN result.status = "raised" /\ NoValue /\ Untouched
        ELSE result.status = "ok"
             /\ result.iv = <<GordonOf(R(Inp.D0), Pct(Inp.g_stable), ReqKe)>>

C8_Witness ==
    /\ Ran /\ SingleRate /\ Inp.n >= 2
    /\ result.status = "ok"
    /\ Inp.g_stable # 0 /\ Inp.g_stable # -100

----------------------------------------------------------------------------
(* C9: Residual Income with full payout *)

\* BV0 + sum over t = 1..h of (ROE-Ke)*BV0/(1+Ke)^t
RECURSIVE RIClosedForm(_, _, _, _)
RIClosedForm(BV0, ROE, Ke, h) ==
    IF h = 0 THEN BV0
    ELSE RAdd(RIClosedForm(BV0, ROE, Ke, h - 1),
              RDiv(RMul(RSub(ROE, Ke), BV0), RPow(RAdd(One, Ke), h)))

FullPayout == IsRI /\ Inp.payout = 100 /\ Inp.horizon >= 1

\* C9 as stated: with payout = 1 and a horizon from 1 to 10 the book value is BV0 at
\* every iteration, every year's residual income is (ROE-Ke)*BV0, and the run returns
\* BV0 + sum over t of (ROE-Ke)*BV0/(1+Ke)^t.
C9_Original ==
    Ran /\ FullPayout =>
        /\ StepVals("BVt") = {R(Inp.BV0)}
        /\ StepVals("residual") = {RMul(RSub(Pct(Inp.ROE), ReqKe), R(Inp.BV0))}
        /\ result.status = "ok"
        /\ result.iv = <<RIClosedForm(R(Inp.BV0), Pct(Inp.ROE), ReqKe, Inp.horizon)>>

\* C9 amended: the same for every Ke other than -100% (so the value is BV0 when
\* ROE = Ke); at Ke = -100% the first iteration divides by (1+Ke)^1 = 0 and the run
\* raises instead of returning a value, after a book value of BV0 and a residual
\* income of (ROE-Ke)*BV0.
C9_FullPayout ==
    Ran /\ FullPayout =>
        /\ StepVals("BVt") = {R(Inp.BV0)}
        /\ StepVals("residual") = {RMul(RSub(Pct(Inp.ROE), ReqKe), R(Inp.BV0))}
        /\ IF IsZero(RAdd(One, ReqKe))
           THEN result.status = "raised" /\ NoValue /\ Untouched
           ELSE /\ result.status = "ok"
                /\ StepCount("residual") = Inp.horizon
                /\ result.iv = <<RIClosedForm(R(Inp.BV0), Pct(Inp.ROE), ReqKe, Inp.horizon)>>
                /\ Pct(Inp.ROE) = ReqKe => result.iv = <<R(Inp.BV0)>>

C9_Witness ==
    /\ Ran /\ FullPayout /\ Inp.horizon = 10
    /\ result.status = "ok"
    /\ Pct(Inp.ROE) # ReqKe
    /\ ReqKe # Zero

====
